---- MODULE Spec2Model ----
(***************************************************************************)
(* Model of systemsDev/mainscript.py: the weekly shopping planner.         *)
(*                                                                         *)
(* run_processing loads the stores, the product costs and the house        *)
(* orders, derives the store -> day and store -> rank maps, builds every   *)
(* house's chain and schedule, folds them into the overall schedule and    *)
(* computes the cost maps.  Python dicts are modelled as insertion-ordered *)
(* sequences of <<key, value>> pairs, Python floats as exact binary64      *)
(* values with round-to-nearest-even arithmetic, and formatted strings as  *)
(* sequences of their parts.                                               *)
(***************************************************************************)
EXTENDS Integers, Sequences, FiniteSets, TLC

VARIABLES pc, stores, product_costs, houses, fixed_schedule, fixed_order,
          h_idx, chain, h_sched, overall, total_cost, house_costs, store_costs

vars == <<pc, stores, product_costs, houses, fixed_schedule, fixed_order,
          h_idx, chain, h_sched, overall, total_cost, house_costs, store_costs>>

-----------------------------------------------------------------------------
(* Bounds of the model. *)

\* Number of store columns in file A.
MaxStores == 9
\* Number of line items materialised over all houses.
MaxItems == 5

-----------------------------------------------------------------------------
(* Python values. *)

None == "None"

\* The elements of a list.
Range(s) == {s[i] : i \in 1..Len(s)}

\* An insertion-ordered dict: a sequence of <<key, value>> pairs, keys unique.
DictKeys(d) == {d[i][1] : i \in 1..Len(d)}

DictHas(d, k) == \E i \in 1..Len(d) : d[i][1] = k

DictGet(d, k) == d[CHOOSE i \in 1..Len(d) : d[i][1] = k][2]

\* dict.get(k, default)
DictGetOr(d, k, default) == IF DictHas(d, k) THEN DictGet(d, k) ELSE default

\* d[k] = v: replaces the value in place, or appends a new key at the end.
DictSet(d, k, v) ==
    IF DictHas(d, k)
    THEN [i \in 1..Len(d) |-> IF d[i][1] = k THEN <<k, v>> ELSE d[i]]
    ELSE Append(d, <<k, v>>)

\* defaultdict(list)[k].append(v)
DictAppend(d, k, v) == DictSet(d, k, Append(DictGetOr(d, k, <<>>), v))

\* str(n) for n >= 0, as the sequence of its decimal digits.
Digits == <<"0", "1", "2", "3", "4", "5", "6", "7", "8", "9">>

RECURSIVE IntToStr(_)
IntToStr(n) ==
    IF n < 10 THEN <<Digits[n + 1]>>
    ELSE Append(IntToStr(n \div 10), Digits[(n % 10) + 1])

\* str.isdigit(): non-empty and every character a digit.
IsDigit(str) == str # <<>> /\ \A i \in 1..Len(str) : str[i] \in Range(Digits)

DigitValue(c) == (CHOOSE i \in 1..10 : Digits[i] = c) - 1

\* int(str) of a string of digits.
RECURSIVE StrToInt(_)
StrToInt(str) ==
    IF str = <<>> THEN 0
    ELSE 10 * StrToInt(SubSeq(str, 1, Len(str) - 1)) + DigitValue(str[Len(str)])

-----------------------------------------------------------------------------
(* Python floats: IEEE 754 binary64 values, non-negative and far from       *)
(* overflow and underflow, with round-to-nearest-even arithmetic.          *)

\* Bits of the binary64 significand.
SignificandBits == 53

\* A float is held as the natural number of its units of 2^(-FractionBits),
\* written in base 2^LimbBits, least significant limb first, without leading
\* zero limbs: every cost of file A and every sum is a whole number of units.
FractionBits == 60

LimbBits == 24

LimbBase == 2^LimbBits

FloatZero == <<>>

\* Exact sum of two naturals, with carry c.
RECURSIVE LimbsAdd(_, _, _)
LimbsAdd(a, b, c) ==
    IF a = <<>> /\ b = <<>> THEN (IF c = 0 THEN <<>> ELSE <<c>>)
    ELSE LET x == IF a = <<>> THEN 0 ELSE Head(a)
             y == IF b = <<>> THEN 0 ELSE Head(b)
             s == x + y + c
         IN <<s % LimbBase>> \o LimbsAdd(IF a = <<>> THEN a ELSE Tail(a),
                                         IF b = <<>> THEN b ELSE Tail(b),
                                         s \div LimbBase)

\* Exact product of a natural and a small natural k (k < 2^7), plus carry c.
RECURSIVE LimbsTimes(_, _, _)
LimbsTimes(a, k, c) ==
    IF a = <<>> THEN (IF c = 0 THEN <<>> ELSE <<c>>)
    ELSE IF k = 0 THEN <<>>
    ELSE LET s == Head(a) * k + c
         IN <<s % LimbBase>> \o LimbsTimes(Tail(a), k, s \div LimbBase)

\* Number of bits of a limb v > 0, by halving the span of LimbBits bits.
LimbBitLength(v) ==
    LET a  == IF v >= 4096 THEN 12 ELSE 0
        v1 == v \div 2^a
        b  == IF v1 >= 64 THEN 6 ELSE 0
        v2 == v1 \div 2^b
        c  == IF v2 >= 8 THEN 3 ELSE 0
        v3 == v2 \div 2^c
    IN a + b + c + (IF v3 >= 4 THEN 3 ELSE IF v3 >= 2 THEN 2 ELSE 1)

\* Number of bits of a natural.
BitLength(a) ==
    IF a = <<>> THEN 0 ELSE LimbBits * (Len(a) - 1) + LimbBitLength(a[Len(a)])

\* The binary64 value nearest to the natural a of units, ties to the even
\* significand: the d = BitLength(a) - 53 low bits are rounded away.
RoundNearestEven(a) ==
    LET d == BitLength(a) - SignificandBits
    IN IF d <= 0 THEN a
       ELSE LET k      == d \div LimbBits
                b      == d % LimbBits
                kept   == SubSeq(a, k + 1, Len(a))
                guard  == IF b > 0 THEN (kept[1] \div 2^(b - 1)) % 2
                          ELSE a[k] \div 2^(LimbBits - 1)
                sticky == \/ \E i \in 1..(k - 1) : a[i] # 0
                          \/ IF b > 0
                             THEN \/ kept[1] % 2^(b - 1) # 0
                                  \/ (k > 0 /\ a[k] # 0)
                             ELSE a[k] % 2^(LimbBits - 1) # 0
                odd    == (kept[1] \div 2^b) % 2 = 1
                up     == guard = 1 /\ (sticky \/ odd)
                floor  == [kept EXCEPT ![1] = @ - (@ % 2^b)]
            IN [i \in 1..k |-> 0]
               \o (IF up THEN LimbsAdd(floor, <<2^b>>, 0) ELSE floor)

\* float + float
FloatAdd(x, y) == RoundNearestEven(LimbsAdd(x, y, 0))

\* float * int
FloatMul(x, k) == RoundNearestEven(LimbsTimes(x, k, 0))

\* The float whose float.hex() is 0x1.<frac>p<exp>, frac of 13 hex digits.
RECURSIVE HexNatural(_, _)
HexNatural(a, hs) ==
    IF hs = <<>> THEN a ELSE HexNatural(LimbsTimes(a, 16, Head(hs)), Tail(hs))

\* a * 2^n
ShiftLeft(a, n) ==
    LET q    == n \div LimbBits
        r    == n % LimbBits
        cut  == 2^(LimbBits - r)
        top  == a[Len(a)] \div cut
        low  == [i \in 1..Len(a) |->
                    (a[i] % cut) * 2^r + (IF i = 1 THEN 0 ELSE a[i - 1] \div cut)]
    IN IF a = <<>> THEN a
       ELSE [i \in 1..q |-> 0] \o low \o (IF top = 0 THEN <<>> ELSE <<top>>)

FloatHex(frac, exp) ==
    ShiftLeft(HexNatural(<<1>>, frac), exp - 4 * Len(frac) + FractionBits)

-----------------------------------------------------------------------------
(* The input files.                                                        *)

\* File A: the store columns of the header, in order.
StoreColumns == <<"D", "B", "G", "A", "F", "C", "H", "E", "J", "I", "L", "K">>

\* File A: the products and the stores whose column holds a Y in their row.
Products == {"Milk", "Bread", "Eggs", "Rice"}

Stocked(product) ==
    CASE product = "Milk"  -> {"B", "D"}
      [] product = "Bread" -> {"B", "H"}
      [] product = "Eggs"  -> {"H", "E"}
      [] OTHER             -> {"E", "J", "I"}

\* File A: the cost column: float("0.10"), float("0.20"), float("0.50") and
\* float("1.00").
CostColumn ==
    << <<"Milk",  FloatHex(<<9, 9, 9, 9, 9, 9, 9, 9, 9, 9, 9, 9, 10>>, -4)>>,
       <<"Bread", FloatHex(<<9, 9, 9, 9, 9, 9, 9, 9, 9, 9, 9, 9, 10>>, -3)>>,
       <<"Eggs",  FloatHex(<<>>, -1)>>,
       <<"Rice",  FloatHex(<<>>, 0)>> >>

\* File B: the house columns of the header.
HouseColumns == <<"H1", "H2">>

\* File B: the cells a product's row may hold.
QtyCells(product) ==
    CASE product = "Milk"  -> {<<"1">>, <<>>}
      [] product = "Bread" -> {<<"1">>, <<"0">>}
      [] product = "Eggs"  -> {<<"1">>, <<"-", "1">>}
      [] OTHER             -> {<<"1", "2">>, <<"x">>}

-----------------------------------------------------------------------------
(* Data classes. *)

\* House.__init__
House(house_number) == [house_number |-> house_number, products |-> <<>>]

\* House.add_product: "if quantity:" is true of every integer but 0.
add_product(house, product_name, quantity, cost, store_list) ==
    IF quantity # 0
    THEN [house EXCEPT !.products =
              Append(@, [product |-> product_name, quantity |-> quantity,
                         cost |-> cost, stores |-> store_list])]
    ELSE house

\* Store.__init__ and Store.add_product
Store(store_name, products) == [store_name |-> store_name, products |-> products]

\* ScheduleAction.__init__
ScheduleAction(action_type, items, store) ==
    [action_type |-> action_type, items |-> items, store |-> store]

-----------------------------------------------------------------------------
(* CSV loading. *)

\* load_stores: one Store per header column, with the products marked Y.
load_stores(columns) ==
    [i \in 1..Len(columns) |->
        <<columns[i], Store(columns[i], {p \in Products : columns[i] \in Stocked(p)})>>]

\* load_product_costs
load_product_costs == CostColumn

\* load_house_orders, one cell of one row: the product of the row, the house of
\* the column and the text of the cell.
load_house_orders_cell(hs, sts, costs, product, house_id, qty_str) ==
    LET cost      == DictGetOr(costs, product, FloatZero)
        available == {s_name \in DictKeys(sts) :
                          product \in DictGet(sts, s_name).products}
    IN IF IsDigit(qty_str)
       THEN LET qty == StrToInt(qty_str)
            IN IF qty > 0
               THEN LET hs1 == IF DictHas(hs, house_id) THEN hs
                               ELSE DictSet(hs, house_id, House(house_id))
                    IN DictSet(hs1, house_id,
                               add_product(DictGet(hs1, house_id), product, qty,
                                           cost, available))
               ELSE hs
       ELSE hs

-----------------------------------------------------------------------------
(* Build Store -> Day + Priority. *)

day_names == <<"Monday", "Tuesday", "Wednesday", "Thursday", "Friday", "Saturday",
               "Sunday">>

\* build_fixed_schedule with the weekdays started again after Sunday.
build_fixed_schedule_wrapped(sts) ==
    [k \in 1..Len(sts) |-> <<sts[k][1], <<day_names[((k - 1) % Len(day_names)) + 1]>> >>]

\* build_fixed_schedule: i counts the keys of stores from 0.  A day label is
\* the sequence of its words; the number of an extra day is its digits.
build_fixed_schedule(sts) ==
    [k \in 1..Len(sts) |->
        LET i == k - 1
        IN <<sts[k][1],
             IF i < Len(day_names) THEN <<day_names[i + 1]>>
             ELSE <<"Extra", "Day", IntToStr(i - Len(day_names) + 1)>> >>]

\* build_fixed_order: i counts the keys of stores from 1.
build_fixed_order(sts) == [k \in 1..Len(sts) |-> <<sts[k][1], k>>]

-----------------------------------------------------------------------------
(* House Chain + Pairing. *)

\* fixed_order.get(s, 9999)
UnknownRank == 9999

\* float('inf') as the initial best_p: no rank is below 0.
Infinity == -1

RankBelow(p, best_p) == best_p = Infinity \/ p < best_p

\* if best_s: neither None nor the empty string.
Truthy(best_s) == best_s # None /\ best_s # ""

\* f"{product} x{qty}"
ItemStr(product, qty) == <<product, " x">> \o IntToStr(qty)

\* chain_best_store with the comparison turned round: the largest rank wins.
RECURSIVE chain_best_store_largest(_, _, _, _)
chain_best_store_largest(cands, fo, best_s, best_p) ==
    IF cands = {} THEN best_s
    ELSE LET s == CHOOSE x \in cands : TRUE
             p == DictGetOr(fo, s, UnknownRank)
         IN IF best_p = Infinity \/ p > best_p
            THEN chain_best_store_largest(cands \ {s}, fo, s, p)
            ELSE chain_best_store_largest(cands \ {s}, fo, best_s, best_p)

\* compute_house_chain, the loop "for s in cands" (a set: some order).
RECURSIVE chain_best_store(_, _, _, _)
chain_best_store(cands, fo, best_s, best_p) ==
    IF cands = {} THEN best_s
    ELSE LET s == CHOOSE x \in cands : TRUE
             p == DictGetOr(fo, s, UnknownRank)
         IN IF RankBelow(p, best_p)
            THEN chain_best_store(cands \ {s}, fo, s, p)
            ELSE chain_best_store(cands \ {s}, fo, best_s, best_p)

\* compute_house_chain, the loop "for pr in house.products" from the k-th item.
RECURSIVE chain_map_from(_, _, _, _)
chain_map_from(products, fo, k, chain_map) ==
    IF k > Len(products) THEN chain_map
    ELSE LET pr     == products[k]
             best_s == chain_best_store(pr.stores, fo, None, Infinity)
         IN chain_map_from(products, fo, k + 1,
                IF Truthy(best_s) /\ pr.quantity > 0
                THEN DictAppend(chain_map, best_s, ItemStr(pr.product, pr.quantity))
                ELSE chain_map)

\* SortedByRank without the sort: the groups in the order of chain_map.
SortedByRank_unsorted(items, fo) == items

\* sorted(chain_map.items(), key=lambda x: fixed_order[x[0]]): a stable sort.
RECURSIVE InsertByRank(_, _, _)
InsertByRank(sorted, x, fo) ==
    IF sorted = <<>> THEN <<x>>
    ELSE IF DictGet(fo, x[1]) < DictGet(fo, Head(sorted)[1])
         THEN <<x>> \o sorted
         ELSE <<Head(sorted)>> \o InsertByRank(Tail(sorted), x, fo)

RECURSIVE SortedByRank(_, _)
SortedByRank(items, fo) ==
    IF items = <<>> THEN <<>>
    ELSE InsertByRank(SortedByRank(SubSeq(items, 1, Len(items) - 1), fo),
                      items[Len(items)], fo)

compute_house_chain(house, fo) ==
    SortedByRank(chain_map_from(house.products, fo, 1, <<>>), fo)

\* schedule_leftover without the DELIVER action.
schedule_leftover_store_only(schedule, group, fs) ==
    IF group[2] # <<>>
    THEN DictAppend(schedule, DictGet(fs, group[1]),
                    ScheduleAction("STORE", group[2], <<group[1]>>))
    ELSE schedule

\* build_house_schedule, the leftover single store: store+deliver same day.
\* The store of an action is the sequence of the parts of its label.
schedule_leftover(schedule, group, fs) ==
    LET store_name == group[1]
        items_list == group[2]
        day_name   == DictGet(fs, store_name)
    IN IF items_list # <<>>
       THEN DictAppend(
                DictAppend(schedule, day_name,
                           ScheduleAction("STORE", items_list, <<store_name>>)),
                day_name, ScheduleAction("DELIVER", items_list, <<store_name>>))
       ELSE schedule

\* schedule_pair with the two item lists combined in the other order.
schedule_pair_swapped(schedule, group0, group1, fs) ==
    LET day0   == DictGet(fs, group0[1])
        day1   == DictGet(fs, group1[1])
        sched0 == DictAppend(schedule, day0,
                             ScheduleAction("STORE", group0[2], <<group0[1]>>))
        sched1 == DictAppend(sched0, day1,
                             ScheduleAction("STORE", group1[2], <<group1[1]>>))
    IN DictAppend(sched1, day1,
                  ScheduleAction("DELIVER", group1[2] \o group0[2],
                                 <<group0[1], "+", group1[1]>>))

\* schedule_pair with the DELIVER action on day0 instead of day1.
schedule_pair_deliver_day0(schedule, group0, group1, fs) ==
    LET day0   == DictGet(fs, group0[1])
        day1   == DictGet(fs, group1[1])
        sched0 == DictAppend(schedule, day0,
                             ScheduleAction("STORE", group0[2], <<group0[1]>>))
        sched1 == DictAppend(sched0, day1,
                             ScheduleAction("STORE", group1[2], <<group1[1]>>))
    IN DictAppend(sched1, day0,
                  ScheduleAction("DELIVER", group0[2] \o group1[2],
                                 <<group0[1], "+", group1[1]>>))

\* build_house_schedule, a pair (S0,S1): store s0 on day0, store s1 on day1
\* and deliver s0 & s1 combined on day1.
schedule_pair(schedule, group0, group1, fs) ==
    LET s0_name  == group0[1]
        s0_items == group0[2]
        s1_name  == group1[1]
        s1_items == group1[2]
        day0     == DictGet(fs, s0_name)
        day1     == DictGet(fs, s1_name)
        sched0   == IF s0_items # <<>>
                    THEN DictAppend(schedule, day0,
                                    ScheduleAction("STORE", s0_items, <<s0_name>>))
                    ELSE schedule
        sched1   == IF s1_items # <<>>
                    THEN DictAppend(sched0, day1,
                                    ScheduleAction("STORE", s1_items, <<s1_name>>))
                    ELSE sched0
        combined == s0_items \o s1_items
    IN IF combined # <<>>
       THEN DictAppend(sched1, day1,
                       ScheduleAction("DELIVER", combined, <<s0_name, "+", s1_name>>))
       ELSE sched1

\* build_house_schedule, the loop "while i<n" from i.
RECURSIVE house_schedule_from(_, _, _, _)
house_schedule_from(ch, fs, i, schedule) ==
    LET n == Len(ch)
    IN IF ~(i < n) THEN schedule
       ELSE IF i = n - 1
       THEN house_schedule_from(ch, fs, i + 1, schedule_leftover(schedule, ch[i + 1], fs))
       ELSE house_schedule_from(ch, fs, i + 2,
                                schedule_pair(schedule, ch[i + 1], ch[i + 2], fs))

build_house_schedule(ch, fs) == house_schedule_from(ch, fs, 0, <<>>)

\* build_overall_schedule: overall[day_name][h_id].append(a)
overall_append(ov, day_name, h_id, a) ==
    DictSet(ov, day_name, DictAppend(DictGetOr(ov, day_name, <<>>), h_id, a))

\* build_overall_schedule, "for a in acts" from the j-th action of a day.
RECURSIVE overall_add_acts(_, _, _, _, _)
overall_add_acts(ov, day_name, h_id, acts, j) ==
    IF j > Len(acts) THEN ov
    ELSE overall_add_acts(overall_append(ov, day_name, h_id, acts[j]),
                          day_name, h_id, acts, j + 1)

\* build_overall_schedule, "for day_name, acts in h_sched.items()" from the
\* d-th day.
RECURSIVE overall_add_days(_, _, _, _)
overall_add_days(ov, h_id, sched, d) ==
    IF d > Len(sched) THEN ov
    ELSE overall_add_days(overall_add_acts(ov, sched[d][1], h_id, sched[d][2], 1),
                          h_id, sched, d + 1)

-----------------------------------------------------------------------------
(* Cost Functions. *)

\* total_cost_items over the items with a candidate store only.
RECURSIVE total_cost_items_allocated_only(_, _, _)
total_cost_items_allocated_only(products, k, total) ==
    IF k > Len(products) THEN total
    ELSE total_cost_items_allocated_only(products, k + 1,
             IF products[k].stores = {} THEN total
             ELSE FloatAdd(total, FloatMul(products[k].cost, products[k].quantity)))

\* compute_total_cost, the inner loop from the k-th item of a house.
RECURSIVE total_cost_items(_, _, _)
total_cost_items(products, k, total) ==
    IF k > Len(products) THEN total
    ELSE total_cost_items(products, k + 1,
             FloatAdd(total, FloatMul(products[k].cost, products[k].quantity)))

\* compute_total_cost, the outer loop from the h-th house.
RECURSIVE total_cost_houses(_, _, _)
total_cost_houses(hs, h, total) ==
    IF h > Len(hs) THEN total
    ELSE total_cost_houses(hs, h + 1, total_cost_items(hs[h][2].products, 1, total))

compute_total_cost(hs) == total_cost_houses(hs, 1, FloatZero)

\* costs_best_store with the comparison turned round: the largest rank wins.
RECURSIVE costs_best_store_largest(_, _, _, _)
costs_best_store_largest(cands, fo, best_s, best_p) ==
    IF cands = {} THEN best_s
    ELSE LET s == CHOOSE x \in cands : TRUE
             p == DictGetOr(fo, s, UnknownRank)
         IN IF best_p = Infinity \/ p > best_p
            THEN costs_best_store_largest(cands \ {s}, fo, s, p)
            ELSE costs_best_store_largest(cands \ {s}, fo, best_s, best_p)

\* compute_costs, the loop "for s in cands" (a set: some order).
RECURSIVE costs_best_store(_, _, _, _)
costs_best_store(cands, fo, best_s, best_p) ==
    IF cands = {} THEN best_s
    ELSE LET s == CHOOSE x \in cands : TRUE
             p == DictGetOr(fo, s, UnknownRank)
         IN IF RankBelow(p, best_p)
            THEN costs_best_store(cands \ {s}, fo, s, p)
            ELSE costs_best_store(cands \ {s}, fo, best_s, best_p)

\* compute_costs, the inner loop from the k-th item of a house: the pair of
\* h_total and store_costs.
RECURSIVE costs_items(_, _, _, _, _)
costs_items(products, fo, k, h_total, st_costs) ==
    IF k > Len(products) THEN <<h_total, st_costs>>
    ELSE LET cost   == products[k].cost
             qty    == products[k].quantity
             best_s == costs_best_store(products[k].stores, fo, None, Infinity)
             amount == FloatMul(cost, qty)
         IN costs_items(products, fo, k + 1,
                FloatAdd(h_total, amount),
                IF Truthy(best_s)
                THEN DictSet(st_costs, best_s,
                         FloatAdd(DictGetOr(st_costs, best_s, FloatZero), amount))
                ELSE st_costs)

\* costs_houses with h_total set to 0.0 once, before the loop over the houses.
RECURSIVE costs_houses_running_total(_, _, _, _, _)
costs_houses_running_total(hs, fo, h, h_costs, st_costs) ==
    IF h > Len(hs) THEN <<h_costs, st_costs>>
    ELSE LET before == IF h_costs = <<>> THEN FloatZero
                       ELSE h_costs[Len(h_costs)][2]
             r      == costs_items(hs[h][2].products, fo, 1, before, st_costs)
         IN costs_houses_running_total(hs, fo, h + 1,
                DictSet(h_costs, hs[h][2].house_number, r[1]), r[2])

\* compute_costs, the outer loop from the h-th house: the pair of house_costs
\* and store_costs.
RECURSIVE costs_houses(_, _, _, _, _)
costs_houses(hs, fo, h, h_costs, st_costs) ==
    IF h > Len(hs) THEN <<h_costs, st_costs>>
    ELSE LET r == costs_items(hs[h][2].products, fo, 1, FloatZero, st_costs)
         IN costs_houses(hs, fo, h + 1,
                DictSet(h_costs, hs[h][2].house_number, r[1]), r[2])

compute_costs(hs, fo) == costs_houses(hs, fo, 1, <<>>, <<>>)

-----------------------------------------------------------------------------
(* Summaries. *)

DAY_LIST == <<"Monday", "Tuesday", "Wednesday", "Thursday", "Friday", "Saturday",
              "Sunday">>

\* day_sort_key, on a day label given as the sequence of its words.
day_sort_key(day) ==
    IF Len(day) = 1 /\ day[1] \in Range(DAY_LIST)
    THEN CHOOSE i \in 1..Len(DAY_LIST) : DAY_LIST[i] = day[1]
    ELSE IF Len(day) >= 2 /\ day[1] = "Extra" /\ day[2] = "Day"
         THEN IF Len(day) = 3
              THEN IF IsDigit(day[3]) THEN 7 + StrToInt(day[3]) ELSE 9999
              ELSE 9999
         ELSE 9999

-----------------------------------------------------------------------------
(* The headers file A may have. *)

Rotate(s, r) == [i \in 1..Len(s) |-> s[((i - 1 + r) % Len(s)) + 1]]

\* Every number of store columns up to MaxStores, from every starting column.
CatalogHeaders ==
    {Rotate(SubSeq(StoreColumns, 1, n), r) : n \in 1..MaxStores, r \in 0..MaxStores}
        \cup {<<>>}

\* The first MaxStores store columns, or three columns that leave Rice without
\* a store.
PlannerHeaders == {SubSeq(StoreColumns, 1, MaxStores), <<"H", "B", "D">>}

\* A house has a line item of a product.
HasOrdered(hs, house_id, product) ==
    /\ DictHas(hs, house_id)
    /\ \E k \in 1..Len(DictGet(hs, house_id).products) :
           DictGet(hs, house_id).products[k].product = product

\* The line items of all houses.
ItemCount(hs) ==
    LET RECURSIVE count(_)
        count(h) == IF h > Len(hs) THEN 0 ELSE Len(hs[h][2].products) + count(h + 1)
    IN count(1)

-----------------------------------------------------------------------------
(* run_processing, statement by statement. *)

Init ==
    /\ pc = "load_stores"
    /\ stores = <<>>
    /\ product_costs = <<>>
    /\ houses = <<>>
    /\ fixed_schedule = <<>>
    /\ fixed_order = <<>>
    /\ h_idx = 0
    /\ chain = <<>>
    /\ h_sched = <<>>
    /\ overall = <<>>
    /\ total_cost = FloatZero
    /\ house_costs = <<>>
    /\ store_costs = <<>>

\* stores=load_stores(fileA)
LoadStores(headers) ==
    /\ pc = "load_stores"
    /\ \E columns \in headers : stores' = load_stores(columns)
    /\ pc' = "load_product_costs"
    /\ UNCHANGED <<product_costs, houses, fixed_schedule, fixed_order, h_idx, chain,
                   h_sched, overall, total_cost, house_costs, store_costs>>

\* product_costs=load_product_costs(fileA)
LoadProductCosts ==
    /\ pc = "load_product_costs"
    /\ product_costs' = load_product_costs
    /\ pc' = "load_house_orders"
    /\ UNCHANGED <<stores, houses, fixed_schedule, fixed_order, h_idx, chain,
                   h_sched, overall, total_cost, house_costs, store_costs>>

\* houses=load_house_orders(fileB, stores, product_costs): the next cell of
\* the file that holds anything. File B has at most MaxItems such cells, and
\* no house has two of them for one product.
LoadHouseOrdersCell ==
    /\ pc = "load_house_orders"
    /\ ItemCount(houses) < MaxItems
    /\ \E product \in Products, i \in 1..Len(HouseColumns) :
           /\ ~HasOrdered(houses, HouseColumns[i], product)
           /\ \E qty_str \in QtyCells(product) :
                  houses' = load_house_orders_cell(houses, stores, product_costs,
                                                   product, HouseColumns[i], qty_str)
    /\ UNCHANGED <<pc, stores, product_costs, fixed_schedule, fixed_order, h_idx,
                   chain, h_sched, overall, total_cost, house_costs, store_costs>>

\* The end of file B, then fixed_schedule=build_fixed_schedule(stores)
BuildFixedSchedule ==
    /\ pc = "load_house_orders"
    /\ fixed_schedule' = build_fixed_schedule(stores)
    /\ pc' = "build_fixed_order"
    /\ UNCHANGED <<stores, product_costs, houses, fixed_order, h_idx, chain,
                   h_sched, overall, total_cost, house_costs, store_costs>>

\* fixed_order=build_fixed_order(stores)
BuildFixedOrder ==
    /\ pc = "build_fixed_order"
    /\ fixed_order' = build_fixed_order(stores)
    /\ pc' = "build_overall_schedule"
    /\ h_idx' = 0
    /\ UNCHANGED <<stores, product_costs, houses, fixed_schedule, chain, h_sched,
                   overall, total_cost, house_costs, store_costs>>

\* build_overall_schedule, one turn of "for h_id,h_obj in houses.items()".
BuildOverallScheduleHouse ==
    /\ pc = "build_overall_schedule"
    /\ h_idx < Len(houses)
    /\ LET h_id  == houses[h_idx + 1][1]
           h_obj == houses[h_idx + 1][2]
           ch    == compute_house_chain(h_obj, fixed_order)
           sched == build_house_schedule(ch, fixed_schedule)
       IN /\ chain' = ch
          /\ h_sched' = sched
          /\ overall' = overall_add_days(overall, h_id, sched, 1)
    /\ h_idx' = h_idx + 1
    /\ UNCHANGED <<pc, stores, product_costs, houses, fixed_schedule, fixed_order,
                   total_cost, house_costs, store_costs>>

\* build_overall_schedule returns, then total_cost=compute_total_cost(houses)
ComputeTotalCost ==
    /\ pc = "build_overall_schedule"
    /\ h_idx = Len(houses)
    /\ total_cost' = compute_total_cost(houses)
    /\ pc' = "compute_costs"
    /\ UNCHANGED <<stores, product_costs, houses, fixed_schedule, fixed_order, h_idx,
                   chain, h_sched, overall, house_costs, store_costs>>

\* house_costs, store_costs=compute_costs(houses, fixed_order)
ComputeCosts ==
    /\ pc = "compute_costs"
    /\ LET r == compute_costs(houses, fixed_order)
       IN /\ house_costs' = r[1]
          /\ store_costs' = r[2]
    /\ pc' = "done"
    /\ UNCHANGED <<stores, product_costs, houses, fixed_schedule, fixed_order, h_idx,
                   chain, h_sched, overall, total_cost>>

LoadPlannerStores == LoadStores(PlannerHeaders)

LoadCatalogStores == LoadStores(CatalogHeaders)

Next ==
    \/ LoadPlannerStores
    \/ LoadProductCosts
    \/ LoadHouseOrdersCell
    \/ BuildFixedSchedule
    \/ BuildFixedOrder
    \/ BuildOverallScheduleHouse
    \/ ComputeTotalCost
    \/ ComputeCosts

Spec == Init /\ [][Next]_vars

\* The catalog alone: the stores of any header, and the two maps built on them.
NextCatalog ==
    \/ LoadCatalogStores
    \/ LoadProductCosts
    \/ BuildFixedSchedule
    \/ BuildFixedOrder

SpecCatalog == Init /\ [][NextCatalog]_vars

\* A House alone: any calls of add_product on a new House.
QuantityArgs == {-2, -1, 0, 1, 2}

InitHouse ==
    /\ pc = "add_product"
    /\ stores = <<>>
    /\ product_costs = <<>>
    /\ houses = << <<"H1", House("H1")>> >>
    /\ fixed_schedule = <<>>
    /\ fixed_order = <<>>
    /\ h_idx = 0
    /\ chain = <<>>
    /\ h_sched = <<>>
    /\ overall = <<>>
    /\ total_cost = FloatZero
    /\ house_costs = <<>>
    /\ store_costs = <<>>

AddProduct ==
    /\ pc = "add_product"
    /\ Len(houses[1][2].products) < MaxItems
    /\ \E product \in {"Milk", "Rice"}, quantity \in QuantityArgs :
           houses' = [houses EXCEPT ![1][2] =
                         add_product(@, product, quantity,
                                     DictGetOr(CostColumn, product, FloatZero),
                                     Stocked(product))]
    /\ UNCHANGED <<pc, stores, product_costs, fixed_schedule, fixed_order, h_idx,
                   chain, h_sched, overall, total_cost, house_costs, store_costs>>

NextHouse == AddProduct

SpecHouse == InitHouse /\ [][NextHouse]_vars

-----------------------------------------------------------------------------
(* What the properties below are stated with. *)

Rank(s) == DictGet(fixed_order, s)

Day(s) == DictGet(fixed_schedule, s)

\* The candidate of the smallest rank.
MinRankStore(cands) == CHOOSE s \in cands : \A t \in cands : Rank(s) <= Rank(t)

Allocated(pr) == pr.stores # {}

StrOf(pr) == ItemStr(pr.product, pr.quantity)

\* A turn of the loop of build_overall_schedule has just run: chain and
\* h_sched are those of its house (nothing changes them afterwards).
ChainBuilt == pc = "build_overall_schedule" /\ h_idx >= 1

ChainHouse == houses[h_idx][2]

\* The items of a chain's group of store s, <<>> if it has none.
GroupOf(ch, s) == DictGetOr(ch, s, <<>>)

\* The strings of the items of a house whose smallest-rank candidate is s, in
\* the order of the house's line items.
ItemsAt(h, s) ==
    LET AtS(pr) == Allocated(pr) /\ MinRankStore(pr.stores) = s
        sel     == SelectSeq(h.products, AtS)
    IN [i \in 1..Len(sel) |-> StrOf(sel[i])]

StoreAct(items, s) == [action_type |-> "STORE", items |-> items, store |-> <<s>>]

DeliverAct(items, label) == [action_type |-> "DELIVER", items |-> items, store |-> label]

\* Groups 1..m of chain (m even) are scheduled as the pairs (1,2), (3,4), ...
PairsScheduled(m) ==
    \A j \in 1..m :
        IF j % 2 = 1
        THEN DictGetOr(h_sched, Day(chain[j][1]), <<>>)
                 = <<StoreAct(chain[j][2], chain[j][1])>>
        ELSE DictGetOr(h_sched, Day(chain[j][1]), <<>>)
                 = <<StoreAct(chain[j][2], chain[j][1]),
                     DeliverAct(chain[j - 1][2] \o chain[j][2],
                                <<chain[j - 1][1], "+", chain[j][1]>>)>>

\* h_sched has one day per group of chain, and no other.
OneDayPerGroup ==
    /\ Len(h_sched) = Len(chain)
    /\ DictKeys(h_sched) = {Day(chain[j][1]) : j \in 1..Len(chain)}

\* All line items, house after house.
RECURSIVE ItemsFrom(_, _)
ItemsFrom(hs, h) ==
    IF h > Len(hs) THEN <<>> ELSE hs[h][2].products \o ItemsFrom(hs, h + 1)

AllItems == ItemsFrom(houses, 1)

\* The float sum of cost * quantity over a sequence of items, left to right
\* from 0.0.
RECURSIVE AmountSum(_)
AmountSum(items) ==
    IF items = <<>> THEN FloatZero
    ELSE FloatAdd(AmountSum(SubSeq(items, 1, Len(items) - 1)),
                  FloatMul(items[Len(items)].cost, items[Len(items)].quantity))

\* sum(d.values()): the float sum of the values of a dict, left to right.
RECURSIVE ValueSum(_)
ValueSum(d) ==
    IF d = <<>> THEN FloatZero
    ELSE FloatAdd(ValueSum(SubSeq(d, 1, Len(d) - 1)), d[Len(d)][2])

\* Every action of the overall schedule, as <<day, house, position, action>>.
OverallActs ==
    UNION {UNION {{<<overall[d][1], overall[d][2][g][1], j, overall[d][2][g][2][j]>> :
                      j \in 1..Len(overall[d][2][g][2])} :
                  g \in 1..Len(overall[d][2])} :
           d \in 1..Len(overall)}

CostsDone == pc = "done"

\* The chains compute_house_chain gives the houses h, h + 1, ...
RECURSIVE ChainsFrom(_)
ChainsFrom(h) ==
    IF h > Len(houses) THEN <<>>
    ELSE <<compute_house_chain(houses[h][2], fixed_order)>> \o ChainsFrom(h + 1)

-----------------------------------------------------------------------------
(* C1: for every line item with a non-empty candidate set, the chain of    *)
(* its house holds the item's string in the group of exactly one store,    *)
(* the candidate of the smallest rank; and every group lists its items in  *)
(* the order of the house's line items.                                    *)
C1_MinRankAllocation ==
    ChainBuilt =>
        /\ \A k \in 1..Len(ChainHouse.products) :
               LET pr     == ChainHouse.products[k]
                   groups == {j \in 1..Len(chain) : StrOf(pr) \in Range(chain[j][2])}
               IN Allocated(pr) =>
                      /\ Cardinality(groups) = 1
                      /\ \A j \in groups :
                             /\ chain[j][1] \in pr.stores
                             /\ \A c \in pr.stores : Rank(chain[j][1]) <= Rank(c)
        /\ \A j \in 1..Len(chain) : chain[j][2] = ItemsAt(ChainHouse, chain[j][1])

\* A house whose items of two different products share a group that is not
\* the first in the order of the line items.
C1_Witness ==
    /\ ChainBuilt
    /\ \E j \in 1..Len(chain) :
           /\ Len(chain[j][2]) >= 2
           /\ chain[j][2][1] # chain[j][2][2]
    /\ \E k \in 1..Len(ChainHouse.products) :
           /\ Cardinality(ChainHouse.products[k].stores) >= 2
           /\ Allocated(ChainHouse.products[1])
           /\ MinRankStore(ChainHouse.products[1].stores) # chain[1][1]

(* C2: a chain of even length is scheduled as the pairs (0,1), (2,3), ...: *)
(* a STORE of S0's items on S0's day, a STORE of S1's items on S1's day,   *)
(* then one DELIVER on S1's day of S0's items followed by S1's, labelled   *)
(* "S0+S1"; and nothing else.                                              *)
C2_EvenChainPairs ==
    (ChainBuilt /\ Len(chain) % 2 = 0) =>
        /\ OneDayPerGroup
        /\ PairsScheduled(Len(chain))

C2_Witness == ChainBuilt /\ Len(chain) = 4 /\ Len(chain[1][2]) = 1

(* C3: a chain of odd length ends with a STORE and then a DELIVER of the   *)
(* last group's items on that store's day, both labelled with the store;   *)
(* the groups before it are scheduled as pairs; an empty chain schedules   *)
(* nothing.                                                                *)
C3_OddChainLeftover ==
    /\ (ChainBuilt /\ Len(chain) % 2 = 1) =>
           LET n == Len(chain)
           IN /\ OneDayPerGroup
              /\ PairsScheduled(n - 1)
              /\ DictGetOr(h_sched, Day(chain[n][1]), <<>>)
                     = <<StoreAct(chain[n][2], chain[n][1]),
                         DeliverAct(chain[n][2], <<chain[n][1]>>)>>
    /\ (ChainBuilt /\ chain = <<>>) => h_sched = <<>>

C3_Witness == ChainBuilt /\ Len(chain) = 3

(* C6: the groups of a chain are in strictly increasing rank, and no store *)
(* has two groups.                                                         *)
C6_ChainStrictlyRanked ==
    ChainBuilt =>
        \A j, k \in 1..Len(chain) :
            j < k => /\ Rank(chain[j][1]) < Rank(chain[k][1])
                     /\ chain[j][1] # chain[k][1]

\* A chain of three groups of a house whose first item is not of the first
\* group.
C6_Witness ==
    /\ ChainBuilt
    /\ Len(chain) >= 3
    /\ StrOf(ChainHouse.products[1]) \notin Range(chain[1][2])

(* C4: a line item without a candidate store is in no group of its        *)
(* house's chain and in no action of the overall schedule, and adds to no  *)
(* store's bucket of store_costs (every bucket is the sum over the items   *)
(* that have candidates and whose smallest-rank candidate is that store);  *)
(* its cost * quantity is still summed into total_cost and into its        *)
(* house's entry of house_costs.                                           *)
C4_UnallocatedItems ==
    /\ ChainBuilt =>
           \A k \in 1..Len(ChainHouse.products) :
               ~Allocated(ChainHouse.products[k]) =>
                   \A j \in 1..Len(chain) :
                       StrOf(ChainHouse.products[k]) \notin Range(chain[j][2])
    /\ LET all  == AllItems
           acts == OverallActs
       IN /\ \A k \in 1..Len(all) :
                 ~Allocated(all[k]) =>
                     \A a \in acts : StrOf(all[k]) \notin Range(a[4].items)
          /\ pc \in {"compute_costs", "done"} => total_cost = AmountSum(all)
          /\ CostsDone =>
                 /\ \A h \in 1..Len(houses) :
                        /\ DictHas(house_costs, houses[h][1])
                        /\ DictGet(house_costs, houses[h][1])
                               = AmountSum(houses[h][2].products)
                 /\ \A s \in DictKeys(stores) \cup DictKeys(store_costs) :
                        LET AtS(pr) == Allocated(pr) /\ MinRankStore(pr.stores) = s
                        IN DictGetOr(store_costs, s, FloatZero)
                               = AmountSum(SelectSeq(all, AtS))

\* A house with an item without a candidate store between two items that
\* have one, when all costs are computed.
C4_Witness ==
    /\ CostsDone
    /\ \E h \in 1..Len(houses) :
           LET prs == houses[h][2].products
           IN /\ Len(prs) >= 3
              /\ Allocated(prs[1])
              /\ ~Allocated(prs[2])
              /\ prs[2].cost # FloatZero
              /\ Allocated(prs[3])

(* C5: compute_costs and compute_house_chain give every item the same      *)
(* store: store_costs has a bucket for store s exactly when some house's   *)
(* chain has a group of s, and the bucket is the sum of cost * quantity    *)
(* over the items whose string is in s's group of their house's chain      *)
(* (summed in the order of the houses and of their line items).            *)
C5_SameStoreInBothPasses ==
    CostsDone =>
        LET chains == ChainsFrom(1)
        IN \A s \in DictKeys(stores) \cup DictKeys(store_costs) :
               LET InGroup(h) ==
                       LET InS(pr) == StrOf(pr) \in Range(GroupOf(chains[h], s))
                       IN SelectSeq(houses[h][2].products, InS)
                   RECURSIVE From(_)
                   From(h) == IF h > Len(houses) THEN <<>> ELSE InGroup(h) \o From(h + 1)
                   HasGroup == \E h \in 1..Len(houses) : DictHas(chains[h], s)
               IN /\ DictHas(store_costs, s) <=> HasGroup
                  /\ DictGetOr(store_costs, s, FloatZero) = AmountSum(From(1))

\* Two houses with an item each at the same store, one of them with a choice
\* of candidates, when all costs are computed.
C5_Witness ==
    /\ CostsDone
    /\ Len(houses) = 2
    /\ \E s \in DictKeys(store_costs) :
           \A h \in 1..2 :
               \E k \in 1..Len(houses[h][2].products) :
                   LET pr == houses[h][2].products[k]
                   IN /\ Cardinality(pr.stores) >= 2
                      /\ MinRankStore(pr.stores) = s

-----------------------------------------------------------------------------
(* Exactness of the float sums. *)

\* Number of trailing zero bits of a non-zero float's units.
TrailingZeros(a) ==
    LET i == CHOOSE n \in 1..Len(a) : a[n] # 0 /\ \A m \in 1..(n - 1) : a[m] = 0
    IN LimbBits * (i - 1)
       + (CHOOSE z \in 0..(LimbBits - 1) : a[i] % 2^z = 0 /\ a[i] % 2^(z + 1) # 0)

\* The sum of cost * quantity over all items in the reals.
RECURSIVE ExactSum(_)
ExactSum(items) ==
    IF items = <<>> THEN <<>>
    ELSE LimbsAdd(ExactSum(SubSeq(items, 1, Len(items) - 1)),
                  LimbsTimes(items[Len(items)].cost, items[Len(items)].quantity, 0), 0)

\* Every cost is a multiple of one power of two 2^g and the sum of all
\* cost * quantity in the reals is below 2^(g + 53): no product and no partial
\* sum of any of the items, in any order, is rounded.
NothingRounds ==
    LET all  == AllItems
        bits == BitLength(ExactSum(all))
        zs   == {TrailingZeros(all[k].cost) :
                    k \in {i \in 1..Len(all) : all[i].cost # FloatZero}}
    IN \E g \in 0..(4 * LimbBits) :
           /\ \A z \in zs : z >= g
           /\ bits - g <= SignificandBits

(* C8, as stated: the sum of house_costs over all households equals        *)
(* total_cost.                                                             *)
C8_HouseCostsSumToTotal == CostsDone => ValueSum(house_costs) = total_cost

(* C8, amended: the sum of house_costs over all households equals          *)
(* total_cost whenever no float operation rounds, that is when the costs   *)
(* are multiples of one power of two 2^g and their sum is below 2^(g+53).  *)
C8_HouseCostsSumToTotalWhenExact ==
    (CostsDone /\ NothingRounds) => ValueSum(house_costs) = total_cost

\* Two houses, each with two items, whose costs sum without rounding.
C8_Witness ==
    /\ CostsDone
    /\ NothingRounds
    /\ Len(houses) = 2
    /\ \A h \in 1..2 : Len(houses[h][2].products) = 2
    /\ total_cost # FloatZero

-----------------------------------------------------------------------------
\* The day labels of the first, second, ... store.
ExpectedDayLabels ==
    << <<"Monday">>, <<"Tuesday">>, <<"Wednesday">>, <<"Thursday">>, <<"Friday">>,
       <<"Saturday">>, <<"Sunday">>,
       <<"Extra", "Day", <<"1">>>>, <<"Extra", "Day", <<"2">>>>,
       <<"Extra", "Day", <<"3">>>>, <<"Extra", "Day", <<"4">>>>,
       <<"Extra", "Day", <<"5">>>> >>

FixedScheduleBuilt == pc \in {"build_fixed_order", "build_overall_schedule"}

(* C9: build_fixed_schedule gives every store exactly one day label, the   *)
(* k-th store the k-th weekday name for k = 1..7 and "Extra Day (k-7)" for *)
(* k >= 8, and no two stores the same label.                               *)
C9_DayLabels ==
    FixedScheduleBuilt =>
        /\ Len(fixed_schedule) = Len(stores)
        /\ \A k \in 1..Len(stores) :
               /\ Cardinality({j \in 1..Len(fixed_schedule) :
                                   fixed_schedule[j][1] = stores[k][1]}) = 1
               /\ Day(stores[k][1]) = ExpectedDayLabels[k]
        /\ \A j, k \in 1..Len(stores) :
               j # k => Day(stores[j][1]) # Day(stores[k][1])

\* Nine stores, the last two on extra days.
C9_Witness ==
    /\ FixedScheduleBuilt
    /\ Len(stores) >= 9
    /\ stores[1][1] # StoreColumns[1]

-----------------------------------------------------------------------------
\* The stores the items of a house are allocated to.
BestStores(h) ==
    {MinRankStore(h.products[k].stores) :
        k \in {i \in 1..Len(h.products) : Allocated(h.products[i])}}

\* The store of an item is the first of a pair of its house's chain: it has
\* an odd place among the house's stores in the order of rank, and not the
\* last place.
FirstOfPair(h, pr) ==
    LET place == Cardinality({t \in BestStores(h) :
                                  Rank(t) <= Rank(MinRankStore(pr.stores))})
    IN place % 2 = 1 /\ place < Cardinality(BestStores(h))

\* The actions of a type of a house that list the string of an item.
ActsWith(acts, h_id, type, pr) ==
    {a \in acts : /\ a[2] = h_id
                  /\ a[4].action_type = type
                  /\ StrOf(pr) \in Range(a[4].items)}

(* C10: in the overall schedule every allocated item of every house folded *)
(* in is in exactly one STORE and in exactly one DELIVER action of its     *)
(* house, and the DELIVER's day does not sort before the STORE's day under *)
(* day_sort_key: it is the same day for the second store of a pair and for *)
(* a leftover store, a strictly later day for the first store of a pair.   *)
C10_StoredOnceDeliveredOnceInOrder ==
    LET acts == OverallActs
    IN \A h \in 1..(IF pc = "build_overall_schedule" THEN h_idx ELSE 0) :
           \A k \in 1..Len(houses[h][2].products) :
               LET pr == houses[h][2].products[k]
                   st == ActsWith(acts, houses[h][1], "STORE", pr)
                   dl == ActsWith(acts, houses[h][1], "DELIVER", pr)
               IN Allocated(pr) =>
                      /\ Cardinality(st) = 1
                      /\ Cardinality(dl) = 1
                      /\ \A a \in st, b \in dl :
                             /\ day_sort_key(b[1]) >= day_sort_key(a[1])
                             /\ IF FirstOfPair(houses[h][2], pr)
                                THEN day_sort_key(b[1]) > day_sort_key(a[1])
                                ELSE b[1] = a[1]

\* Two houses folded in, one with an item stored on Sunday and delivered on
\* the first extra day.
C10_Witness ==
    /\ pc = "build_overall_schedule"
    /\ h_idx = 2
    /\ \E a \in OverallActs, b \in OverallActs :
           /\ a[2] = b[2]
           /\ a[4].action_type = "STORE"
           /\ b[4].action_type = "DELIVER"
           /\ a[1] = <<"Sunday">>
           /\ b[1] = <<"Extra", "Day", <<"1">>>>
           /\ \E x \in Range(a[4].items) : x \in Range(b[4].items)

-----------------------------------------------------------------------------
(* C7: after any calls of add_product every line item of a House has a     *)
(* strictly positive quantity: a call with a quantity of zero or below     *)
(* adds no line item.                                                      *)
C7_PositiveQuantities ==
    \A h \in 1..Len(houses) :
        \A k \in 1..Len(houses[h][2].products) :
            houses[h][2].products[k].quantity > 0

====
